---- MODULE Spec2Model ----
(***************************************************************************)
(* A model of blinkiva_gauss (src/blinkiva_gauss.py): joint NMF + AuxIVA   *)
(* blind source separation.  One behaviour of the model is one call of the *)
(* routine: the arguments are chosen in Init, every action is one          *)
(* statement group of the routine, and pc is the position in its body.     *)
(*                                                                         *)
(* Numbers.  Real values are fixed-point integers with ONE quanta per unit *)
(* (x stands for x / ONE) and floor rounding; complex values are pairs     *)
(* <<re, im>> of such integers.  Arrays are sequences indexed from 1:      *)
(* X[n][f][c], U[n][b], W[f][k][c], Y[n][f][c], P[n][c], R_all[n][c],      *)
(* G[s][b], V[f][s][i][j].  R of the source is the view R_all[:, :n_src],  *)
(* so the model holds R_all only and reads R through it.                   *)
(***************************************************************************)
EXTENDS Integers, Sequences, FiniteSets, TLC

\* ------------------------------------------------------------ fixed point
\* quanta per unit of the fixed-point representation
ONE == 256

\* The largest magnitude represented.  float64 never leaves its range in a
\* call: a result too large becomes inf, and x / 0 is inf.  Here a result
\* beyond Huge is Huge (with its sign), x / 0 is Huge for x # 0, and 0 / 0
\* (float64's nan) is 0, so that every operation is total.
Huge == 2^30 - 1

Abs(a) == IF a < 0 THEN 0 - a ELSE a
Clamp(a) == IF a > Huge THEN Huge ELSE IF a < 0 - Huge THEN 0 - Huge ELSE a

\* a + b, a - b and a * b within the range
Plus(a, b) == Clamp(a + b)
Minus(a, b) == Clamp(a - b)
Times(a, b) ==
    IF a = 0 \/ b = 0 THEN 0
    ELSE IF Abs(a) > Huge \div Abs(b)
         THEN (IF (a < 0) = (b < 0) THEN Huge ELSE 0 - Huge)
         ELSE a * b

\* the product and the quotient of two fixed-point numbers
FMul(a, b) == Times(a, b) \div ONE
FDiv(a, b) ==
    IF b = 0
    THEN (IF a = 0 THEN 0 ELSE IF a > 0 THEN Huge ELSE 0 - Huge)
    ELSE Times(a, ONE) \div b

RECURSIVE SqrtIter(_, _)
SqrtIter(n, x) ==
    LET y == (x + n \div x) \div 2
    IN  IF y >= x THEN x ELSE SqrtIter(n, y)

\* the integer square root (Newton's iteration from above)
ISqrt(n) == IF n <= 0 THEN 0 ELSE SqrtIter(n, n)

\* np.sqrt of a non-negative real
FSqrt(a) == ISqrt(Times(a, ONE))

RECURSIVE SumTo(_, _)
SumTo(f, k) == IF k = 0 THEN 0 ELSE Plus(f[k], SumTo(f, k - 1))

\* np.sum of a vector of reals
Sum(f) == SumTo(f, Len(f))

\* np.mean of a vector of reals
Mean(f) == Sum(f) \div Len(f)

\* ---------------------------------------------------------------- complex
CZero == <<0, 0>>
COne == <<ONE, 0>>
CAdd(a, b) == <<Plus(a[1], b[1]), Plus(a[2], b[2])>>
CSub(a, b) == <<Minus(a[1], b[1]), Minus(a[2], b[2])>>
CMul(a, b) == <<Minus(FMul(a[1], b[1]), FMul(a[2], b[2])),
                Plus(FMul(a[1], b[2]), FMul(a[2], b[1]))>>

\* np.conj
CConj(a) == <<a[1], 0 - a[2]>>

\* complex times real, complex over real
CScale(a, r) == <<FMul(a[1], r), FMul(a[2], r)>>
CDivR(a, r) == <<FDiv(a[1], r), FDiv(a[2], r)>>

\* |a|^2
CAbs2(a) == Plus(FMul(a[1], a[1]), FMul(a[2], a[2]))

CDiv(a, b) ==
    LET n == CMul(a, CConj(b))
        d == CAbs2(b)
    IN  <<FDiv(n[1], d), FDiv(n[2], d)>>

\* the principal square root of a complex number (np.sqrt on a complex array)
CSqrt(a) ==
    LET r == FSqrt(CAbs2(a))
        re == FSqrt(Plus(r, a[1]) \div 2)
        im == FSqrt(Minus(r, a[1]) \div 2)
    IN  <<re, IF a[2] < 0 THEN 0 - im ELSE im>>

RECURSIVE CSumTo(_, _)
CSumTo(f, k) == IF k = 0 THEN CZero ELSE CAdd(f[k], CSumTo(f, k - 1))

\* np.sum of a vector of complex numbers
CSum(f) == CSumTo(f, Len(f))

\* the order numpy gives complex numbers: by real part, then imaginary part
CLess(a, b) == a[1] < b[1] \/ (a[1] = b[1] /\ a[2] < b[2])

\* ------------------------------------------------------------------ shapes
\* Python's None: as an array, as an integer, and as "no exception"
None == <<>>
IntNone == 0 - 1
NoError == "None"

\* X.shape, U.shape (lines 48-49)
NFrames(x) == Len(x)
NFreq(x) == Len(x[1])
NChan(x) == Len(x[1][1])
NBlink(u) == Len(u[1])

\* a check that lets through a U with fewer frames than X
FramesAtMost(x, u) == Len(u) <= NFrames(x)

\* the check of line 51: U's frame count against X's
FramesMatch(x, u) == Len(u) = NFrames(x)

\* line 55-56: default to the determined case
DefaultNSrc(ns, x) == IF ns = IntNone THEN NChan(x) ELSE ns

\* np.eye(n_chan, n_chan), as complex
Eye(nc) == [k \in 1..nc |-> [c \in 1..nc |-> IF k = c THEN COne ELSE CZero]]

\* a start from np.zeros in place of np.eye
InitWZeros(w0, x) ==
    IF w0 = None THEN [f \in 1..NFreq(x) |-> [k \in 1..NChan(x) |-> [c \in 1..NChan(x) |-> CZero]]]
    ELSE w0

\* lines 59-62: the starting demixing matrices
InitW(w0, x) == IF w0 = None THEN [f \in 1..NFreq(x) |-> Eye(NChan(x))] ELSE w0

\* line 68: U / n_freq / 2
UMean(u, nf) == [n \in 1..Len(u) |-> [b \in 1..NBlink(u) |-> (u[n][b] \div nf) \div 2]]

\* np.zeros of lines 71-73 and np.ones of line 76
ZerosY(x) == [n \in 1..NFrames(x) |-> [f \in 1..NFreq(x) |-> [c \in 1..NChan(x) |-> CZero]]]
ZerosV(x) ==
    [f \in 1..NFreq(x) |-> [s \in 1..NChan(x) |->
        [i \in 1..NChan(x) |-> [j \in 1..NChan(x) |-> CZero]]]]
ZerosP(x) == [n \in 1..NFrames(x) |-> [c \in 1..NChan(x) |-> 0]]
OnesR(x) == [n \in 1..NFrames(x) |-> [c \in 1..NChan(x) |-> ONE]]

\* a column of a matrix, as a vector over its rows
Col(m, c) == [n \in 1..Len(m) |-> m[n][c]]

\* --------------------------------------------------- the random generator
\* np.random's generator, as a small linear congruential generator: a state,
\* the next state, and the uniform [0, 1) number a state yields.
RngNext(st) == (5 * st + 3) % 32
RngValue(st) == (st * ONE) \div 32

\* np.random.seed(seed): the state a seed sets
RngSeed(sd) == (7 * sd + 1) % 32

RECURSIVE RngAdvance(_, _)
\* the state after k draws
RngAdvance(st, k) == IF k = 0 THEN st ELSE RngAdvance(RngNext(st), k - 1)

\* np.random.rand(rows, cols) from state st: entry [r][c] is draw (r-1)*cols + c
Rand(st, rows, cols) ==
    [r \in 1..rows |-> [c \in 1..cols |-> RngValue(RngAdvance(st, (r - 1) * cols + c))]]

\* 0.1 + 0.9 * np.random.rand(rows, cols) (lines 87, 89)
Draw(st, rows, cols) ==
    LET u == Rand(st, rows, cols)
    IN  [r \in 1..rows |-> [c \in 1..cols |->
            Plus(ONE \div 10, FMul((9 * ONE) \div 10, u[r][c]))]]

\* lines 83-85: the state the draws start from
DrawState(sd, ambient) == IF sd = IntNone THEN ambient ELSE RngSeed(sd)

\* an exit that leaves the generator where the draws left it
RestoreStateLost(sd, saved, st, k) == RngAdvance(st, k)

\* lines 93-94: the ambient state after the draws of k numbers from state st
RestoreState(sd, saved, st, k) == IF sd = IntNone THEN RngAdvance(st, k) ELSE saved

\* ----------------------------------------------------------- initializer
\* np.dot(R, G): U_hat[n][b] = sum over the tied sources of R[n][s] * G[s][b]
DotRG(r, g, ns) ==
    [n \in 1..Len(r) |-> [b \in 1..Len(g[1]) |->
        Sum([s \in 1..ns |-> FMul(r[n][s], g[s][b])])]]

\* lines 87-88: the drawn R, every column scaled to unit mean, in R_all's
\* first n_src columns
InitR(rall, drawn, ns) ==
    [n \in 1..Len(rall) |-> [c \in 1..Len(rall[1]) |->
        IF c <= ns THEN FDiv(drawn[n][c], Mean(Col(drawn, c))) ELSE rall[n][c]]]

\* lines 89-91: the drawn G, every column scaled so that R.G sums to U_mean
InitG(drawn, rall, umean, ns) ==
    LET uhat == DotRG(rall, drawn, ns)
    IN  [s \in 1..ns |-> [b \in 1..Len(drawn[1]) |->
            FMul(drawn[s][b], FDiv(Sum(Col(umean, b)), Sum(Col(uhat, b))))]]

\* ------------------------------------------------------------------ demix
\* line 108-109: Y[:,f,:] = X[:,f,:] . conj(W[f])
DemixY(x, w) ==
    [n \in 1..NFrames(x) |-> [f \in 1..NFreq(x) |-> [c \in 1..NChan(x) |->
        CSum([k \in 1..NChan(x) |-> CMul(x[n][f][k], CConj(w[f][k][c]))])]]]

\* line 113: np.linalg.norm(Y, axis=1) ** 2 / n_freq
Power(y) ==
    [n \in 1..Len(y) |-> [c \in 1..Len(y[1][1]) |->
        Sum([f \in 1..Len(y[1]) |-> CAbs2(y[n][f][c])]) \div Len(y[1])]]

\* line 116: R_all[:, n_src:] = P[:, n_src:]
CopyUntied(rall, p, ns) ==
    [n \in 1..Len(rall) |-> [c \in 1..Len(rall[1]) |->
        IF c > ns THEN p[n][c] ELSE rall[n][c]]]

\* ---------------------------------------------------- factorization step
\* line 65: np.finfo(float).eps, the smallest positive quantum
machine_epsilon == 1

\* lines 148, 154: entries below machine epsilon are set to it
Floor(v) == IF v < machine_epsilon THEN machine_epsilon ELSE v

\* 1. / U_hat (lines 142, 152)
Inverse(m) == [n \in 1..Len(m) |-> [b \in 1..Len(m[1]) |-> FDiv(ONE, m[n][b])]]

\* lines 141-148: the activation update of the tied columns, then the floor
UpdateR(rall, g, p, umean, reg, ns) ==
    LET uhati == Inverse(DotRG(rall, g, ns))
        nb == Len(g[1])
        ri(n, s) == FDiv(ONE, rall[n][s])
        num(n, s) ==
            Plus(FMul(p[n][s], FMul(ri(n, s), ri(n, s))),
                 Sum([b \in 1..nb |->
                      FMul(FMul(umean[n][b], FMul(uhati[n][b], uhati[n][b])), g[s][b])]))
        den(n, s) ==
            Plus(Plus(ri(n, s), Sum([b \in 1..nb |-> FMul(uhati[n][b], g[s][b])])), reg)
    IN  [n \in 1..Len(rall) |-> [c \in 1..Len(rall[1]) |->
            IF c <= ns
            THEN Floor(FMul(rall[n][c], FSqrt(FDiv(num(n, c), den(n, c)))))
            ELSE rall[n][c]]]

\* lines 151-154: the gain update with the new R, then the floor
UpdateG(rall, g, umean, ns) ==
    LET uhati == Inverse(DotRG(rall, g, ns))
        nf == Len(rall)
        num(s, b) == Sum([n \in 1..nf |->
                          FMul(rall[n][s], FMul(umean[n][b], FMul(uhati[n][b], uhati[n][b])))])
        den(s, b) == Sum([n \in 1..nf |-> FMul(rall[n][s], uhati[n][b])])
    IN  [s \in 1..ns |-> [b \in 1..Len(g[1]) |->
            Floor(FMul(g[s][b], FSqrt(FDiv(num(s, b), den(s, b)))))]]

\* lines 157, 191: lmb = 1. / np.mean(R_all, axis=0)
Lmb(rall) == [c \in 1..Len(rall[1]) |-> FDiv(ONE, Mean(Col(rall, c)))]

\* lines 158-159, 192-193: R_all *= lmb and P *= lmb, column by column
ScaleCols(m, l) == [n \in 1..Len(m) |-> [c \in 1..Len(m[1]) |-> FMul(m[n][c], l[c])]]

\* lines 160, 194: W *= np.sqrt(lmb), column by column
ScaleW(w, l) ==
    [f \in 1..Len(w) |-> [k \in 1..Len(w[1]) |-> [c \in 1..Len(w[1][1]) |->
        CScale(w[f][k][c], FSqrt(l[c]))]]]

\* lines 161, 195: G /= lmb[:n_src], row by row
ScaleG(g, l) == [s \in 1..Len(g) |-> [b \in 1..Len(g[1]) |-> FDiv(g[s][b], l[s])]]

\* -------------------------------------------------- auxiliary covariance
\* line 167: the guard added to the denominator, 1e-15
aux_guard == 4

\* lines 165-170: V[f][s][i][j] = mean over n of
\*   X[n][f][i] / (1e-15 + 2 R_all[n][s]) * conj(X[n][f][j])
AuxVar(x, rall) ==
    LET nfr == NFrames(x)
        term(n, f, s, i, j) ==
            CMul(CDivR(x[n][f][i], Plus(aux_guard, Times(2, rall[n][s]))), CConj(x[n][f][j]))
        tot(f, s, i, j) == CSum([n \in 1..nfr |-> term(n, f, s, i, j)])
    IN  [f \in 1..NFreq(x) |-> [s \in 1..NChan(x) |->
            [i \in 1..NChan(x) |-> [j \in 1..NChan(x) |->
                <<tot(f, s, i, j)[1] \div nfr, tot(f, s, i, j)[2] \div nfr>>]]]]

\* ------------------------------------------------- demixing-matrix solve
\* line 177: the threshold a frequency's covariance must exceed, 1e-15
signal_threshold == 4

RECURSIVE CMaxTo(_, _)
CMaxTo(f, k) ==
    IF k = 1 THEN f[1]
    ELSE LET m == CMaxTo(f, k - 1) IN IF CLess(m, f[k]) THEN f[k] ELSE m

\* np.max of a square complex matrix (axis=(1,2) of V[:,s,:,:] at one f)
CMax(m) ==
    LET nc == Len(m)
    IN  CMaxTo([q \in 1..(nc * nc) |-> m[((q - 1) \div nc) + 1][((q - 1) % nc) + 1]], nc * nc)

\* line 177: I_up[f]
IUp(v, f, s) == CLess(<<signal_threshold, 0>>, CMax(v[f][s]))

\* lines 179-180: WV = W^H[f] . V[f][s]
WHV(w, v, f, s) ==
    LET nc == Len(w[f])
    IN  [i \in 1..nc |-> [j \in 1..nc |->
            CSum([k \in 1..nc |-> CMul(CConj(w[f][k][i]), v[f][s][k][j])])]]

\* the determinant of a matrix of order 1 or 2
Det(a) ==
    IF Len(a) = 1 THEN a[1][1]
    ELSE CSub(CMul(a[1][1], a[2][2]), CMul(a[1][2], a[2][1]))

\* np.linalg.solve raises LinAlgError exactly when elimination meets a zero pivot
Singular(a) == Det(a) = CZero

\* line 181: the right-hand side, column s of the identity
Rhs(nc, s) == [i \in 1..nc |-> IF i = s THEN COne ELSE CZero]

\* line 182: np.linalg.solve(a, b) for order 1 or 2 (Cramer's rule)
Solve(a, b) ==
    IF Len(a) = 1 THEN <<CDiv(b[1], a[1][1])>>
    ELSE <<CDiv(CSub(CMul(b[1], a[2][2]), CMul(a[1][2], b[2])), Det(a)),
           CDiv(CSub(CMul(a[1][1], b[2]), CMul(b[1], a[2][1])), Det(a))>>

\* lines 184-186: w / sqrt(sum_i conj(w[i]) * sum_j V[f][s][i][j] w[j])
Normalize(wc, vfs) ==
    LET nc == Len(wc)
        p2 == [i \in 1..nc |-> CSum([j \in 1..nc |-> CMul(vfs[i][j], wc[j])])]
        q == CSum([i \in 1..nc |-> CMul(CConj(wc[i]), p2[i])])
    IN  [i \in 1..nc |-> CDiv(wc[i], CSqrt(q))]

\* lines 177-186 for channel s: whether some active frequency is singular
SolveFails(w, v, s) ==
    \E f \in 1..Len(w) : IUp(v, f, s) /\ Singular(WHV(w, v, f, s))

\* lines 177-186 for channel s: column s of W at every active frequency
UpdateW(w, v, s) ==
    [f \in 1..Len(w) |->
        IF IUp(v, f, s)
        THEN LET nc == Len(w[f])
                 wc == Normalize(Solve(WHV(w, v, f, s), Rhs(nc, s)), v[f][s])
             IN  [k \in 1..nc |-> [c \in 1..nc |-> IF c = s THEN wc[k] ELSE w[f][k][c]]]
        ELSE w[f]]

\* ------------------------------------------------------- projection back
\* pyroomacoustics.bss.projection_back(Y, ref): per frequency and channel,
\* sum_n conj(ref[n][f]) Y[n][f][c] / sum_n |Y[n][f][c]|^2, or 1 where the
\* denominator is not positive
projection_back(y, ref) ==
    [f \in 1..Len(y[1]) |-> [c \in 1..Len(y[1][1]) |->
        LET num == CSum([n \in 1..Len(y) |-> CMul(CConj(ref[n][f]), y[n][f][c])])
            den == Sum([n \in 1..Len(y) |-> CAbs2(y[n][f][c])])
        IN  IF den > 0 THEN CDivR(num, den) ELSE COne]]

\* X[:,:,0]
RefChannel(x) == [n \in 1..NFrames(x) |-> [f \in 1..NFreq(x) |-> x[n][f][1]]]

\* lines 129-130, 198-199: Y * np.conj(z[None,:,:])
Rescaled(y, x) ==
    LET z == projection_back(y, RefChannel(x))
    IN  [n \in 1..Len(y) |-> [f \in 1..Len(y[1]) |-> [c \in 1..Len(y[1][1]) |->
            CMul(y[n][f][c], CConj(z[f][c]))]]]

\* ------------------------------------------------------------------ inputs
\* the largest n_iter and n_nmf_sub_iter of the short runs, and the n_iter of
\* the long run that reaches the second callback epoch
MaxIter == 2
MaxSub == 2
LongIter == 11

\* a one-channel signal: 2 frames, 2 frequencies, the second frequency silent
XMono ==
    << << <<<<ONE, 0>>>>, <<<<0, 0>>>> >>,
       << <<<<2 * ONE, ONE>>>>, <<<<0, 0>>>> >> >>

\* two-channel signals, 3 frames, 1 frequency: a generic one, one whose second
\* channel is silent in the first frame, and one whose channels are equal
XStereo ==
    << << <<<<ONE, 0>>, <<0, ONE>>>> >>,
       << <<<<ONE, ONE>>, <<2 * ONE, 0>>>> >>,
       << <<<<0, ONE>>, <<ONE, ONE>>>> >> >>
XSilent ==
    << << <<<<ONE, 0>>, <<0, 0>>>> >>,
       << <<<<ONE, ONE>>, <<2 * ONE, 0>>>> >>,
       << <<<<0, ONE>>, <<ONE, ONE>>>> >> >>
XCoherent ==
    << << <<<<ONE, 0>>, <<ONE, 0>>>> >>,
       << <<<<ONE, ONE>>, <<ONE, ONE>>>> >>,
       << <<<<0, ONE>>, <<0, ONE>>>> >> >>

Signals == {XMono, XStereo, XSilent, XCoherent}

\* blinky readings over 2 and over 3 frames, one sensor
Blinkies == { << <<2 * ONE>>, <<4 * ONE>> >>,
              << <<2 * ONE>>, <<4 * ONE>>, <<3 * ONE>> >> }

\* ------------------------------------------------------------------- state
VARIABLES
    X, U, W0,               \* the caller's arrays
    n_src, sparse_reg, n_iter, n_nmf_sub_iter, proj_back, seed,
    print_cost, return_filters, callback,
    rng,                    \* np.random's process-wide state
    rng_state,              \* the state saved at line 84
    W, U_mean, Y, V, P, R_all, G,
    epoch, sub_epoch, s,    \* the loop indices (s from 1)
    cost_joint_list,
    calls,                  \* the callback's invocations so far
    pc,                     \* the position in the routine
    raised,                 \* the exception the call ended with
    ret,                    \* the returned value
    entry                   \* the caller's arrays and generator at the call

args == <<n_src, sparse_reg, n_iter, n_nmf_sub_iter, proj_back, seed,
          print_cost, return_filters, callback>>
inputs == <<X, U, W0>>
arrays == <<W, U_mean, Y, V, P, R_all, G>>
loop == <<epoch, sub_epoch, s>>
vars == <<inputs, args, rng, rng_state, arrays, loop, cost_joint_list, calls,
          pc, raised, ret, entry>>

\* the source counts tried with signal x
SourceCounts(x) == {IntNone} \cup (1..NChan(x))

\* the starting matrices tried with signal x
Starts(x) ==
    IF NChan(x) = 1 THEN {None, [f \in 1..NFreq(x) |-> Eye(NChan(x))]} ELSE {None}

\* The callback argument: None, or a function.  A function that only reads
\* what it is handed and one that also writes into it are told apart.
NoCallback == "None"
Callbacks == {NoCallback, "reads", "writes"}

\* calls of a few epochs, with every signal
ShortRun ==
    /\ X \in Signals
    /\ U \in Blinkies
    /\ W0 \in Starts(X)
    /\ n_src \in SourceCounts(X)
    /\ n_iter \in 0..MaxIter
    /\ n_nmf_sub_iter \in 1..MaxSub
    /\ seed \in {IntNone, 0, 1}
    /\ rng \in {3, 7}
    /\ print_cost \in BOOLEAN
    /\ return_filters \in BOOLEAN
    /\ callback \in {NoCallback, "reads"}

\* calls with a callback that writes into what it is handed
WritingRun ==
    /\ X \in Signals
    /\ U \in Blinkies
    /\ W0 = None
    /\ n_src \in SourceCounts(X)
    /\ n_iter \in 0..MaxIter
    /\ n_nmf_sub_iter = 1
    /\ seed = IntNone
    /\ rng = 3
    /\ print_cost = TRUE
    /\ return_filters = TRUE
    /\ callback = "writes"

\* calls long enough to reach the second callback epoch, with the
\* one-channel signal
LongRun ==
    /\ X = XMono
    /\ U \in Blinkies
    /\ W0 = None
    /\ n_src = IntNone
    /\ n_iter = LongIter
    /\ n_nmf_sub_iter = 1
    /\ seed = IntNone
    /\ rng = 3
    /\ print_cost \in BOOLEAN
    /\ return_filters = FALSE
    /\ callback \in Callbacks

Init ==
    /\ ShortRun \/ WritingRun \/ LongRun
    /\ sparse_reg = 0
    /\ proj_back \in BOOLEAN
    /\ rng_state = IntNone
    /\ W = None /\ U_mean = None /\ Y = None /\ V = None
    /\ P = None /\ R_all = None /\ G = None
    /\ epoch = 0 /\ sub_epoch = 0 /\ s = 1
    /\ cost_joint_list = <<>>
    /\ calls = <<>>
    /\ pc = "validate"
    /\ raised = NoError
    /\ ret = None
    /\ entry = [X |-> X, U |-> U, W0 |-> W0, rng |-> rng]

\* ----------------------------------------------------------------- actions
\* lines 48-52
Validate ==
    /\ pc = "validate"
    /\ IF FramesMatch(X, U)
       THEN pc' = "initialize" /\ raised' = raised
       ELSE pc' = "raised" /\ raised' = "ValueError"
    /\ UNCHANGED <<inputs, args, rng, rng_state, arrays, loop, cost_joint_list,
                   calls, ret, entry>>

\* lines 54-94
Initialize ==
    /\ pc = "initialize"
    /\ LET ns == DefaultNSrc(n_src, X)
           nfr == NFrames(X)
           nb == NBlink(U)
           st == DrawState(seed, rng)
           um == UMean(U, NFreq(X))
           r == InitR(OnesR(X), Draw(st, nfr, ns), ns)
           g == InitG(Draw(RngAdvance(st, nfr * ns), ns, nb), r, um, ns)
       IN  /\ n_src' = ns
           /\ W' = InitW(W0, X)
           /\ U_mean' = um
           /\ Y' = ZerosY(X)
           /\ V' = ZerosV(X)
           /\ P' = ZerosP(X)
           /\ rng_state' = IF seed = IntNone THEN rng_state ELSE rng
           /\ R_all' = r
           /\ G' = g
           /\ rng' = RestoreState(seed, rng, st, nfr * ns + ns * nb)
    /\ pc' = "demix0"
    /\ UNCHANGED <<inputs, sparse_reg, n_iter, n_nmf_sub_iter, proj_back, seed,
                   print_cost, return_filters, callback, loop, cost_joint_list,
                   calls, raised, ret, entry>>

\* a loop of one epoch too many
LoopHeadInclusive(e) == IF e <= n_iter THEN "callback" ELSE "proj_back"

\* the head of the loop of line 125
LoopHead(e) == IF e < n_iter THEN "callback" ELSE "proj_back"

\* lines 107-116: demix(Y, X, W, P, R_all)
Demixed ==
    /\ Y' = DemixY(X, W)
    /\ P' = Power(DemixY(X, W))
    /\ R_all' = CopyUntied(R_all, Power(DemixY(X, W)), n_src)

\* line 120
InitialDemix ==
    /\ pc = "demix0"
    /\ Demixed
    /\ pc' = LoopHead(0)
    /\ UNCHANGED <<inputs, args, rng, rng_state, W, U_mean, V, G, loop,
                   cost_joint_list, calls, raised, ret, entry>>

\* a schedule of every fifth epoch
DueEveryFifth(e) == e % 5 = 0

\* lines 127, 134: every tenth epoch
Due(e) == e % 10 = 0

\* what a callback may do with an array it was handed: write into it.  One
\* write per array stands for all of them.
WriteTargets == {"nothing", "Y", "W", "G", "R", "X", "U"}

Written(t) ==
    /\ Y' = IF t = "Y" THEN [Y EXCEPT ![1][1][1] = CZero] ELSE Y
    /\ W' = IF t = "W" THEN [W EXCEPT ![1][1][1] = <<2 * ONE, 0>>] ELSE W
    /\ G' = IF t = "G" THEN [G EXCEPT ![1][1] = 2 * ONE] ELSE G
    /\ R_all' = IF t = "R" THEN [R_all EXCEPT ![1][1] = 2 * ONE] ELSE R_all
    /\ X' = IF t = "X" THEN [X EXCEPT ![1][1][1] = <<ONE, ONE>>] ELSE X
    /\ U' = IF t = "U" THEN [U EXCEPT ![1][1] = ONE] ELSE U

\* lines 129-130: the callback gets a new array, Y * conj(z)
CallbackRescaled ==
    /\ calls' = Append(calls, [epoch |-> epoch, est |-> Rescaled(Y, X), extra |-> FALSE])
    /\ UNCHANGED <<inputs, arrays>>

\* line 132: the callback gets Y itself and extra=[W, G, R, X, U]
CallbackRaw ==
    /\ calls' = Append(calls, [epoch |-> epoch, est |-> Y, extra |-> TRUE])
    /\ \E t \in (IF callback = "writes" THEN WriteTargets ELSE {"nothing"}) : Written(t)
    /\ UNCHANGED <<W0, U_mean, V, P>>

\* lines 127-132
Callback ==
    /\ pc = "callback"
    /\ IF callback # NoCallback /\ Due(epoch)
       THEN IF proj_back THEN CallbackRescaled ELSE CallbackRaw
       ELSE UNCHANGED <<inputs, arrays, calls>>
    /\ pc' = "cost"
    /\ UNCHANGED <<args, rng, rng_state, loop, cost_joint_list, raised, ret, entry>>

\* lines 134-136 and the head of the loop of line 138.  The cost is a sum of
\* logarithms, which the fixed-point numbers do not represent: the list
\* records the epoch of each entry.
CostReport ==
    /\ pc = "cost"
    /\ cost_joint_list' = IF print_cost /\ Due(epoch)
                          THEN Append(cost_joint_list, epoch)
                          ELSE cost_joint_list
    /\ sub_epoch' = 0
    /\ pc' = IF 0 < n_nmf_sub_iter THEN "nmf" ELSE "auxvar"
    /\ UNCHANGED <<inputs, args, rng, rng_state, arrays, epoch, s, calls,
                   raised, ret, entry>>

\* lines 157-161 and 191-195: the rescale of R_all (r), P, W and G (g)
Rescale(r, g) ==
    LET lmb == Lmb(r)
    IN  /\ R_all' = ScaleCols(r, lmb)
        /\ P' = ScaleCols(P, lmb)
        /\ W' = ScaleW(W, lmb)
        /\ G' = ScaleG(g, lmb)

\* lines 138-161: one factorization sub-step
NmfStep ==
    /\ pc = "nmf"
    /\ LET r == UpdateR(R_all, G, P, U_mean, sparse_reg, n_src)
           g == UpdateG(r, G, U_mean, n_src)
       IN  Rescale(r, g)
    /\ sub_epoch' = sub_epoch + 1
    /\ pc' = IF sub_epoch + 1 < n_nmf_sub_iter THEN "nmf" ELSE "auxvar"
    /\ UNCHANGED <<inputs, args, rng, rng_state, U_mean, Y, V, epoch, s,
                   cost_joint_list, calls, raised, ret, entry>>

\* lines 165-170
AuxVarStep ==
    /\ pc = "auxvar"
    /\ V' = AuxVar(X, R_all)
    /\ s' = 1
    /\ pc' = "solve"
    /\ UNCHANGED <<inputs, args, rng, rng_state, W, U_mean, Y, P, R_all, G,
                   epoch, sub_epoch, cost_joint_list, calls, raised, ret, entry>>

\* lines 174-186 for one channel s
SolveStep ==
    /\ pc = "solve"
    /\ IF SolveFails(W, V, s)
       THEN /\ pc' = "raised"
            /\ raised' = "LinAlgError"
            /\ UNCHANGED <<W, s>>
       ELSE /\ W' = UpdateW(W, V, s)
            /\ s' = s + 1
            /\ pc' = IF s < NChan(X) THEN "solve" ELSE "demix"
            /\ raised' = raised
    /\ UNCHANGED <<inputs, args, rng, rng_state, U_mean, Y, V, P, R_all, G,
                   epoch, sub_epoch, cost_joint_list, calls, ret, entry>>

\* line 188
DemixStep ==
    /\ pc = "demix"
    /\ Demixed
    /\ pc' = "rescale"
    /\ UNCHANGED <<inputs, args, rng, rng_state, W, U_mean, V, G, loop,
                   cost_joint_list, calls, raised, ret, entry>>

\* lines 191-195, and the next iteration of the loop of line 125
RescaleStep ==
    /\ pc = "rescale"
    /\ Rescale(R_all, G)
    /\ epoch' = epoch + 1
    /\ pc' = LoopHead(epoch + 1)
    /\ UNCHANGED <<inputs, args, rng, rng_state, U_mean, Y, V, sub_epoch, s,
                   cost_joint_list, calls, raised, ret, entry>>

\* lines 197-199
ProjBack ==
    /\ pc = "proj_back"
    /\ Y' = IF proj_back THEN Rescaled(Y, X) ELSE Y
    /\ pc' = "return"
    /\ UNCHANGED <<inputs, args, rng, rng_state, W, U_mean, V, P, R_all, G, loop,
                   cost_joint_list, calls, raised, ret, entry>>

\* lines 201-204
Return ==
    /\ pc = "return"
    /\ ret' = IF return_filters THEN <<Y, W, G, R_all>> ELSE <<Y>>
    /\ pc' = "done"
    /\ UNCHANGED <<inputs, args, rng, rng_state, arrays, loop, cost_joint_list,
                   calls, raised, entry>>

Next ==
    \/ Validate
    \/ Initialize
    \/ InitialDemix
    \/ Callback
    \/ CostReport
    \/ NmfStep
    \/ AuxVarStep
    \/ SolveStep
    \/ DemixStep
    \/ RescaleStep
    \/ ProjBack
    \/ Return

Spec == Init /\ [][Next]_vars

ctl == <<pc, epoch, sub_epoch, s, raised>>

\* the control flow of lines 48-204, whatever the arrays hold: the position
\* that follows each position
Control ==
    \/ /\ pc = "validate"
       /\ \/ pc' = "initialize" /\ raised' = raised
          \/ pc' = "raised" /\ raised' = "ValueError"
       /\ UNCHANGED loop
    \/ /\ pc = "initialize" /\ pc' = "demix0"
       /\ UNCHANGED <<loop, raised>>
    \/ /\ pc = "demix0" /\ pc' = LoopHead(0)
       /\ UNCHANGED <<loop, raised>>
    \/ /\ pc = "callback" /\ pc' = "cost"
       /\ UNCHANGED <<loop, raised>>
    \/ /\ pc = "cost" /\ pc' = (IF 0 < n_nmf_sub_iter THEN "nmf" ELSE "auxvar")
       /\ sub_epoch' = 0
       /\ UNCHANGED <<epoch, s, raised>>
    \/ /\ pc = "nmf" /\ sub_epoch' = sub_epoch + 1
       /\ pc' = (IF sub_epoch + 1 < n_nmf_sub_iter THEN "nmf" ELSE "auxvar")
       /\ UNCHANGED <<epoch, s, raised>>
    \/ /\ pc = "auxvar" /\ pc' = "solve" /\ s' = 1
       /\ UNCHANGED <<epoch, sub_epoch, raised>>
    \/ /\ pc = "solve"
       /\ \/ /\ pc' = (IF s < NChan(X) THEN "solve" ELSE "demix")
             /\ s' = s + 1 /\ raised' = raised
          \/ pc' = "raised" /\ raised' = "LinAlgError" /\ s' = s
       /\ UNCHANGED <<epoch, sub_epoch>>
    \/ /\ pc = "demix" /\ pc' = "rescale"
       /\ UNCHANGED <<loop, raised>>
    \/ /\ pc = "rescale" /\ epoch' = epoch + 1 /\ pc' = LoopHead(epoch + 1)
       /\ UNCHANGED <<sub_epoch, s, raised>>
    \/ /\ pc = "proj_back" /\ pc' = "return"
       /\ UNCHANGED <<loop, raised>>
    \/ /\ pc = "return" /\ pc' = "done"
       /\ UNCHANGED <<loop, raised>>

\* the routine is one sequential computation: while the call has not ended,
\* its control advances
FairSpec == Spec /\ WF_ctl(Control)

\* ================================================================== claims
\* the rounding allowed when two arrays are compared, in quanta
Tol == 4

Near(a, b) == Abs(a - b) <= Tol
CNear(a, b) == Near(a[1], b[1]) /\ Near(a[2], b[2])

\* two signals (frames x frequencies x channels) agree up to rounding
NearSignal(y, x) ==
    /\ Len(y) = Len(x) /\ Len(y[1]) = Len(x[1]) /\ Len(y[1][1]) = Len(x[1][1])
    /\ \A n \in 1..Len(y) : \A f \in 1..Len(y[1]) : \A c \in 1..Len(y[1][1]) :
          CNear(y[n][f][c], x[n][f][c])

\* agreement up to the rounding that a chain of rescalings accumulates: Tol
\* quanta and a thirty-second of the magnitudes
Close(a, b) == Abs(a - b) <= Tol + (Abs(a) + Abs(b)) \div 32

CloseSignal(y, x) ==
    \A n \in 1..Len(y) : \A f \in 1..Len(y[1]) : \A c \in 1..Len(y[1][1]) :
        Close(y[n][f][c][1], x[n][f][c][1]) /\ Close(y[n][f][c][2], x[n][f][c][2])

CloseMatrix(p, q) ==
    \A n \in 1..Len(p) : \A c \in 1..Len(p[1]) : Close(p[n][c], q[n][c])

\* the shape of a three-dimensional array
Shape(y) == <<Len(y), Len(y[1]), Len(y[1][1])>>

\* C1: when U's frame count differs from X's, the call ends with the
\* ValueError of line 52 before anything is computed: X, U and W0 are as
\* passed, the ambient generator is in its state at the call, no local array
\* has been created, and the callback has not been invoked.
C1_MismatchRejected ==
    (Len(entry.U) # Len(entry.X) /\ pc # "validate") =>
        /\ pc = "raised" /\ raised = "ValueError"
        /\ X = entry.X /\ U = entry.U /\ W0 = entry.W0
        /\ rng = entry.rng /\ rng_state = IntNone
        /\ calls = <<>> /\ cost_joint_list = <<>>
        /\ arrays = <<None, None, None, None, None, None, None>>
        /\ ret = None

C1_Witness ==
    /\ pc = "raised" /\ raised = "ValueError"
    /\ Len(entry.U) # Len(entry.X)
    /\ callback # NoCallback /\ seed # IntNone

\* C2: the returned separated signal has shape (frames, frequencies, n_src)
\* for every 1 <= n_src <= channels.
C2_OutputShape ==
    pc = "done" => Shape(ret[1]) = <<NFrames(entry.X), NFreq(entry.X), n_src>>

\* C3: after initialization, after every factorization sub-step, after every
\* epoch and in the returned values, every entry of R, G and R_all (its
\* untied columns included) is at least machine epsilon.
C3_Positivity ==
    pc \in {"callback", "cost", "nmf", "auxvar", "proj_back", "return", "done"} =>
        /\ \A n \in 1..Len(R_all) : \A c \in 1..Len(R_all[1]) :
              R_all[n][c] >= machine_epsilon
        /\ \A k \in 1..Len(G) : \A b \in 1..Len(G[1]) : G[k][b] >= machine_epsilon

\* C4: with a seed, the ambient generator is, at every point of the call and
\* on return, in its state at the call; and the R and G the initializer
\* leaves are those drawn from the seed's state, whatever the ambient state.
C4_SeedIsolation ==
    seed # IntNone =>
        /\ rng = entry.rng
        /\ pc = "demix0" =>
              LET nfr == NFrames(X)
                  r == InitR(OnesR(X), Draw(RngSeed(seed), nfr, n_src), n_src)
              IN  /\ R_all = r
                  /\ G = InitG(Draw(RngAdvance(RngSeed(seed), nfr * n_src),
                                    n_src, NBlink(U)), r, U_mean, n_src)

C4_Witness ==
    /\ pc = "done" /\ seed # IntNone /\ rng = entry.rng
    /\ rng_state = entry.rng /\ RngSeed(seed) # entry.rng

\* the epochs whose callback point has been passed
PastCallback ==
    pc \in {"cost", "nmf", "auxvar", "solve", "demix", "rescale"}
      \/ (pc = "raised" /\ raised = "LinAlgError")
CallbackEpochs ==
    {e \in 0..(IF PastCallback THEN epoch ELSE epoch - 1) : e % 10 = 0}

\* C5: a supplied callback has been invoked exactly once for every epoch
\* 0, 10, 20, ... begun so far, in order, at the start of the epoch and
\* nowhere else; it is handed the current Y (rescaled by projection back when
\* proj_back is set), and Y is written by nothing but a demix (and the
\* callback itself, and the final projection back).
C5_CallbackSchedule ==
    /\ [](/\ Len(calls) = (IF callback = NoCallback THEN 0
                           ELSE Cardinality(CallbackEpochs))
          /\ \A i \in 1..Len(calls) : calls[i].epoch = 10 * (i - 1))
    /\ [][/\ calls' # calls =>
               /\ pc = "callback" /\ pc' = "cost"
               /\ calls' = Append(calls,
                     [epoch |-> epoch,
                      est |-> IF proj_back THEN Rescaled(Y, X) ELSE Y,
                      extra |-> ~proj_back])
          /\ Y' # Y => pc \in {"initialize", "demix0", "demix", "callback", "proj_back"}
         ]_vars

C5_Witness ==
    /\ Len(calls) = 2 /\ calls[2].epoch = 10 /\ pc = "done"
    /\ proj_back /\ ~calls[2].extra

\* C6: whatever the callback writes into what it is handed, the routine's
\* arrays and the caller's inputs are after the callback as before it.
C6_CallbackSnapshot ==
    [][pc = "callback" =>
          /\ W' = W /\ G' = G /\ R_all' = R_all /\ Y' = Y /\ P' = P
          /\ X' = X /\ U' = U]_vars

OrderStep ==
    /\ pc = "demix0" => pc' = (IF 0 < n_iter THEN "callback" ELSE "proj_back")
                        /\ epoch' = 0
    /\ pc = "callback" => pc' = "cost" /\ epoch' = epoch
    /\ pc = "cost" => /\ pc' = (IF 0 < n_nmf_sub_iter THEN "nmf" ELSE "auxvar")
                      /\ sub_epoch' = 0 /\ epoch' = epoch
    /\ pc = "nmf" => /\ sub_epoch' = sub_epoch + 1 /\ epoch' = epoch
                     /\ pc' = (IF sub_epoch' < n_nmf_sub_iter THEN "nmf" ELSE "auxvar")
    /\ pc = "auxvar" => pc' = "solve" /\ s' = 1 /\ epoch' = epoch
    /\ pc = "solve" =>
          \/ /\ s' = s + 1 /\ epoch' = epoch
             /\ pc' = (IF s < NChan(X) THEN "solve" ELSE "demix")
          \/ /\ pc' = "raised" /\ raised' = "LinAlgError"
             /\ \E f \in 1..NFreq(X) : IUp(V, f, s) /\ Det(WHV(W, V, f, s)) = CZero
    /\ pc = "demix" => pc' = "rescale" /\ epoch' = epoch
    /\ pc = "rescale" => /\ epoch' = epoch + 1
                         /\ pc' = (IF epoch' < n_iter THEN "callback" ELSE "proj_back")
    /\ pc = "proj_back" => pc' = "return" /\ epoch = n_iter
    /\ pc = "return" => pc' = "done"
    /\ pc \in {"done", "raised"} => FALSE

\* C9 as claimed: once initialized, the routine is only ever at one of the
\* steps of the loop, at the projection back or at the output.
C9_NoOtherStateAsClaimed ==
    pc \in {"validate", "initialize", "demix0", "callback", "cost", "nmf",
            "auxvar", "solve", "demix", "rescale", "proj_back", "return", "done"}
      \/ (pc = "raised" /\ raised = "ValueError")

\* C9 as amended: the steps follow each other in the claimed order, each of
\* the n_iter epochs with exactly n_nmf_sub_iter sub-steps and one solve per
\* channel in increasing order; the only other transition is a solve that
\* fails on a singular matrix at an active frequency, which ends the call
\* with a linear-algebra error; and every call ends, at the output after
\* exactly n_iter epochs or with an error.
C9_Orchestration ==
    /\ [][OrderStep]_vars
    /\ [](pc = "done" => epoch = n_iter /\ raised = NoError)
    /\ <>(pc \in {"done", "raised"})

C9_Witness ==
    /\ pc = "done" /\ epoch = n_iter /\ n_iter = MaxIter
    /\ n_nmf_sub_iter = MaxSub /\ NChan(X) = 2

\* C10: wherever Y is read (the callback, the cost report, the projection
\* back), Y is X . conj(W) for the W held there, and P is the power of that Y
\* (both up to rounding).  Calls whose callback wrote into the arrays are
\* left out.
C10_YFollowsW ==
    (/\ callback # "writes"
     /\ \/ pc = "callback" /\ callback # NoCallback /\ epoch % 10 = 0
        \/ pc = "cost" /\ print_cost /\ epoch % 10 = 0
        \/ pc = "proj_back") =>
        /\ CloseSignal(Y, DemixY(X, W))
        /\ CloseMatrix(P, Power(Y))

====
